---- MODULE Spec2Model ----
(***************************************************************************)
(* AirSense: the air-quality classification of the backend (basedatos.js)  *)
(* and the filter chain of the viewer page of the frontend.                *)
(*                                                                         *)
(* clasificarCalidadAire(contaminante, valor, tiempoHoras) is modelled as  *)
(* an operator over JavaScript values, with the conversions the function   *)
(* performs (ToString in template literals, ToNumber in isNaN and <=,      *)
(* ToPropertyKey and the prototype chain in the [] lookups, truthiness in  *)
(* the ! tests, iteration in the array destructuring).  The state machine  *)
(* is a caller that invokes the function again and again.                  *)
(*                                                                         *)
(* Specifications:                                                         *)
(*   Spec           calls of clasificarCalidadAire over all arguments of   *)
(*                  the model;                                             *)
(*   SpecSecuencia  sequences of calls in which the caller keeps and       *)
(*                  mutates a returned object, while the module connects   *)
(*                  to PostgreSQL;                                         *)
(*   SpecHistorico  concurrent calls of getDatosHistoricosPorContaminante, *)
(*                  each suspended at its query;                           *)
(*   SpecVisor      the viewer page of the frontend: user events,          *)
(*                  responses of the requests in flight, timers;           *)
(*   SpecVisorJusto the same page when every pending timer runs and every  *)
(*                  request in flight settles.                             *)
(***************************************************************************)
EXTENDS Integers, Sequences, FiniteSets, Bags, TLC

VARIABLES
    \* one call of clasificarCalidadAire: its arguments, its outcome, the
    \* nivel and color returned by the call before, the caller's position
    contaminante, valor, tiempoHoras, resultado, previo, pc,
    \* an earlier call whose returned object the caller still holds
    retenido,
    \* the module-level variable pool and the position of conectarPostgres
    pool, pcConexion,
    \* the calls of getDatosHistoricosPorContaminante under way
    peticion,
    \* the viewer page: its selects, globals, requests in flight and timers
    visor

varsLlamada == <<contaminante, valor, tiempoHoras, resultado, previo, pc>>

varsModulo == <<pool, pcConexion>>

varsHistorico == <<peticion>>

\* What no step of a call of clasificarCalidadAire by itself concerns.
varsResto == <<varsHistorico, visor>>

vars == <<varsLlamada, retenido, varsModulo, varsResto>>

(***************************************************************************)
(* Bounds of the model.  A finite number x is held as the integer          *)
(* x * Scale, so that values strictly between two integers exist; the      *)
(* values tried around a limit are limit + d/Scale for d in                *)
(* -MaxDelta..MaxDelta.                                                    *)
(***************************************************************************)
Scale == 2

MaxDelta == 1

(***************************************************************************)
(* JavaScript values.  Every value is a record with its type t; n is the   *)
(* scaled magnitude of a finite number, s the text of a string or the      *)
(* kind of a non-finite number or of a built-in object.                    *)
(***************************************************************************)
Undefined == [t |-> "undefined", n |-> 0, s |-> ""]

Null == [t |-> "null", n |-> 0, s |-> ""]

Num(x) == [t |-> "number", n |-> x, s |-> "finite"]

Entero(k) == Num(k * Scale)

NaN == [t |-> "number", n |-> 0, s |-> "NaN"]

PosInf == [t |-> "number", n |-> 0, s |-> "Infinity"]

NegInf == [t |-> "number", n |-> 0, s |-> "-Infinity"]

Str(s) == [t |-> "string", n |-> 0, s |-> s]

Sym == [t |-> "symbol", n |-> 0, s |-> "x"]

\* A built-in function object (Object, Function) or the object Object.prototype.
Funcion(nombre) == [t |-> "function", n |-> 0, s |-> nombre]

ObjectPrototype == [t |-> "object", n |-> 0, s |-> "Object.prototype"]

\* An object literal with the given own properties (keys are strings).
Objeto(props) == [t |-> "object", n |-> 0, s |-> "literal", p |-> props]

\* An array literal [lo, hi] of two integers.
Arreglo(lo, hi) == [t |-> "array", n |-> 0, s |-> "", e |-> <<Entero(lo), Entero(hi)>>]

EsNumero(v) == v.t = "number"

EsFinito(v) == v.t = "number" /\ v.s = "finite"

(***************************************************************************)
(* Number -> String, as the ToString conversion does for the numbers of    *)
(* the model: the decimal digits of the integer part, then the fraction    *)
(* if there is one.                                                        *)
(***************************************************************************)
Digito(d) == <<"0", "1", "2", "3", "4", "5", "6", "7", "8", "9">>[d + 1]

RECURSIVE DigitosDe(_)
DigitosDe(k) == IF k < 10 THEN Digito(k) ELSE DigitosDe(k \div 10) \o Digito(k % 10)

RECURSIVE FraccionDe(_, _)
FraccionDe(r, k) ==
    IF r = 0 \/ k = 0 THEN ""
    ELSE Digito((r * 10) \div Scale) \o FraccionDe((r * 10) % Scale, k - 1)

NumeroACadena(v) ==
    IF v.s # "finite" THEN v.s
    ELSE LET a == IF v.n < 0 THEN -v.n ELSE v.n
             signo == IF v.n < 0 THEN "-" ELSE ""
         IN  signo \o DigitosDe(a \div Scale)
                   \o (IF a % Scale = 0 THEN "" ELSE "." \o FraccionDe(a % Scale, 16))

\* The ToString conversion of a template literal throws a TypeError on a Symbol;
\* CadenaDe is that conversion on the other values.
LanzaCadenaDe(v) == v.t = "symbol"

CadenaDe(v) ==
    CASE v.t = "string" -> v.s
      [] v.t = "number" -> NumeroACadena(v)
      [] v.t = "null" -> "null"
      [] v.t = "undefined" -> "undefined"
      [] OTHER -> "[object]"

(***************************************************************************)
(* String -> Number for the strings of the model: a numeric literal gives  *)
(* its number, the empty string 0, any other text NaN.                     *)
(***************************************************************************)
LiteralesNumericos ==
    ("12" :> 12) @@ ("8" :> 8) @@ ("" :> 0) @@ ("20" :> 20) @@ ("30" :> 30)
        @@ ("10" :> 10) @@ ("40" :> 40) @@ ("35" :> 35) @@ ("5" :> 5)

CadenaANumero(s) ==
    IF s \in DOMAIN LiteralesNumericos THEN Entero(LiteralesNumericos[s]) ELSE NaN

\* ToNumber throws a TypeError on a Symbol.
LanzaToNumber(v) == v.t = "symbol"

ToNumber(v) ==
    CASE v.t = "number" -> v
      [] v.t = "string" -> CadenaANumero(v.s)
      [] v.t = "null" -> Entero(0)
      [] OTHER -> NaN

\* The global isNaN(v): ToNumber(v) is NaN.
isNaN(v) == ToNumber(v).s = "NaN"

\* !v is false: v is truthy.
Truthy(v) ==
    CASE v.t \in {"undefined", "null"} -> FALSE
      [] v.t = "number" -> ~(v.s = "NaN" \/ (v.s = "finite" /\ v.n = 0))
      [] v.t = "string" -> v.s # ""
      [] OTHER -> TRUE

\* a <= b on two numbers: false as soon as one is NaN.
MenorOIgualNum(a, b) ==
    CASE a.s = "NaN" \/ b.s = "NaN" -> FALSE
      [] a.s = "-Infinity" \/ b.s = "Infinity" -> TRUE
      [] a.s = "Infinity" \/ b.s = "-Infinity" -> FALSE
      [] OTHER -> a.n <= b.n

\* a <= b where b is a number: both operands go through ToNumber.
MenorOIgual(a, b) == MenorOIgualNum(ToNumber(a), ToNumber(b))

(***************************************************************************)
(* Property access o[k].  ToPropertyKey keeps a Symbol and turns anything  *)
(* else into a string; the lookup goes through the own properties, then    *)
(* through the prototype chain: an object literal inherits from            *)
(* Object.prototype, the function Object from Function.prototype and then  *)
(* from Object.prototype.  Of the built-in properties the model holds      *)
(* constructor and the accessor __proto__.                                 *)
(***************************************************************************)
ToPropertyKey(v) == IF v.t = "symbol" THEN v ELSE Str(CadenaDe(v))

ObtenerPropiedad(o, k) ==
    CASE k.t = "symbol" -> Undefined
      [] o.t = "object" /\ o.s = "literal" /\ k.s \in DOMAIN o.p -> o.p[k.s]
      [] o.t = "object" /\ o.s = "literal" /\ k.s = "constructor" -> Funcion("Object")
      [] o.t = "object" /\ o.s = "literal" /\ k.s = "__proto__" -> ObjectPrototype
      [] o.t = "object" /\ o.s = "Object.prototype" /\ k.s = "constructor" -> Funcion("Object")
      [] o.t = "object" /\ o.s = "Object.prototype" /\ k.s = "__proto__" -> Null
      [] o.t = "function" /\ k.s = "constructor" -> Funcion("Function")
      [] o.t = "function" /\ k.s = "__proto__" -> Funcion("Function.prototype")
      [] OTHER -> Undefined

\* Array destructuring needs an iterable: of the values a lookup can give,
\* only an array is one (a function or a plain object throws a TypeError).
EsIterable(v) == v.t = "array"

(***************************************************************************)
(* const limites: the WHO 2021 limits, pollutant -> hours -> [good, fair]. *)
(***************************************************************************)
limites_O3por5 ==
    Objeto(
      ("O3" :> Objeto(("1" :> Arreglo(100, 160)) @@ ("5" :> Arreglo(80, 120)) @@ ("8" :> Arreglo(60, 100))))
      @@ ("PM10" :> Objeto(("1" :> Arreglo(50, 100)) @@ ("24" :> Arreglo(45, 75))))
      @@ ("PM2.5" :> Objeto(("1" :> Arreglo(15, 25)) @@ ("24" :> Arreglo(15, 25))))
      @@ ("SO2" :> Objeto(("1" :> Arreglo(100, 196)) @@ ("3" :> Arreglo(100, 250)) @@ ("24" :> Arreglo(40, 125))))
      @@ ("NO2" :> Objeto(("1" :> Arreglo(200, 360)) @@ ("24" :> Arreglo(25, 50))))
      @@ ("CO" :> Objeto(("1" :> Arreglo(4000, 10000)) @@ ("8" :> Arreglo(7000, 10000))))
      @@ ("NO" :> Objeto(("1" :> Arreglo(100, 200)))))

limites_NOInvertido ==
    Objeto(
      ("O3" :> Objeto(("1" :> Arreglo(100, 160)) @@ ("8" :> Arreglo(60, 100))))
      @@ ("PM10" :> Objeto(("1" :> Arreglo(50, 100)) @@ ("24" :> Arreglo(45, 75))))
      @@ ("PM2.5" :> Objeto(("1" :> Arreglo(15, 25)) @@ ("24" :> Arreglo(15, 25))))
      @@ ("SO2" :> Objeto(("1" :> Arreglo(100, 196)) @@ ("3" :> Arreglo(100, 250)) @@ ("24" :> Arreglo(40, 125))))
      @@ ("NO2" :> Objeto(("1" :> Arreglo(200, 360)) @@ ("24" :> Arreglo(25, 50))))
      @@ ("CO" :> Objeto(("1" :> Arreglo(4000, 10000)) @@ ("8" :> Arreglo(7000, 10000))))
      @@ ("NO" :> Objeto(("1" :> Arreglo(200, 100)))))

limites ==
    Objeto(
      ("O3" :> Objeto(("1" :> Arreglo(100, 160)) @@ ("8" :> Arreglo(60, 100))))
      @@ ("PM10" :> Objeto(("1" :> Arreglo(50, 100)) @@ ("24" :> Arreglo(45, 75))))
      @@ ("PM2.5" :> Objeto(("1" :> Arreglo(15, 25)) @@ ("24" :> Arreglo(15, 25))))
      @@ ("SO2" :> Objeto(("1" :> Arreglo(100, 196)) @@ ("3" :> Arreglo(100, 250)) @@ ("24" :> Arreglo(40, 125))))
      @@ ("NO2" :> Objeto(("1" :> Arreglo(200, 360)) @@ ("24" :> Arreglo(25, 50))))
      @@ ("CO" :> Objeto(("1" :> Arreglo(4000, 10000)) @@ ("8" :> Arreglo(7000, 10000))))
      @@ ("NO" :> Objeto(("1" :> Arreglo(100, 200)))))

(***************************************************************************)
(* The outcome of a call: a returned object or a thrown TypeError (with    *)
(* the source line that throws).                                           *)
(***************************************************************************)
Retorna(r) == [tipo |-> "return", obj |-> r]

Lanza(linea) == [tipo |-> "throw", error |-> "TypeError", linea |-> linea]

\* The three early returns "Sin datos".
SinDatosValor ==
    [nivel |-> "Sin datos", color |-> "#9E9E9E",
     descripcion |-> "No hay información disponible para esta medición"]

SinDatosContaminante(c) ==
    [nivel |-> "Sin datos", color |-> "#9E9E9E",
     descripcion |-> "No hay parámetros de referencia para " \o CadenaDe(c)]

SinDatosTiempo(c, h) ==
    [nivel |-> "Sin datos", color |-> "#9E9E9E",
     descripcion |-> "No hay parámetros para " \o CadenaDe(c) \o " con "
                       \o CadenaDe(h) \o "h de exposición"]

\* The three classified results, before limites_oms is added.
ResultadoBuena ==
    [nivel |-> "Buena", color |-> "#00E400",
     descripcion |-> "La calidad del aire cumple con los estándares de la OMS y no representa riesgo para la salud"]

ResultadoRegular_ColorMala ==
    [nivel |-> "Regular", color |-> "#FF0000",
     descripcion |-> "La calidad del aire supera las recomendaciones de la OMS. Puede afectar a personas sensibles (niños, ancianos, personas con enfermedades respiratorias)"]

ResultadoRegular ==
    [nivel |-> "Regular", color |-> "#FFFF00",
     descripcion |-> "La calidad del aire supera las recomendaciones de la OMS. Puede afectar a personas sensibles (niños, ancianos, personas con enfermedades respiratorias)"]

ResultadoMala_DescripcionRegular ==
    [nivel |-> "Mala", color |-> "#FF0000",
     descripcion |-> "La calidad del aire supera las recomendaciones de la OMS. Puede afectar a personas sensibles (niños, ancianos, personas con enfermedades respiratorias)"]

ResultadoMala ==
    [nivel |-> "Mala", color |-> "#FF0000",
     descripcion |-> "La calidad del aire supera significativamente los límites seguros de la OMS y puede afectar la salud de toda la población"]

\* if (valor === null || valor === undefined || isNaN(valor)), once isNaN
\* has not thrown.
EsValorInvalido(v) == v = Null \/ v = Undefined \/ isNaN(v)

\* if (valor <= limiteBuena)
EsBuena_Estricto(v, limiteBuena) == MenorOIgual(v, limiteBuena) /\ ToNumber(v) # limiteBuena

EsBuena_SoloPositivos(v, limiteBuena) ==
    MenorOIgual(v, limiteBuena) /\ ~MenorOIgual(v, Entero(0))

EsBuena(v, limiteBuena) == MenorOIgual(v, limiteBuena)

\* else if (valor <= limiteRegular)
EsRegular_Estricto(v, limiteRegular) == MenorOIgual(v, limiteRegular) /\ ToNumber(v) # limiteRegular

EsRegular_Invertido(v, limiteRegular) == MenorOIgual(limiteRegular, v)

EsRegular(v, limiteRegular) == MenorOIgual(v, limiteRegular)

\* resultado.limites_oms = { buena, regular, tiempo_horas, fuente }
LimitesOms_Intercambiados(limiteBuena, limiteRegular, h) ==
    [buena |-> limiteRegular, regular |-> limiteBuena, tiempo_horas |-> h, fuente |-> "OMS 2021"]

LimitesOms(limiteBuena, limiteRegular, h) ==
    [buena |-> limiteBuena, regular |-> limiteRegular, tiempo_horas |-> h, fuente |-> "OMS 2021"]

ConLimitesOms(r, oms) ==
    [nivel |-> r.nivel, color |-> r.color, descripcion |-> r.descripcion, limites_oms |-> oms]

\* The classification proper, from const [limiteBuena, limiteRegular] = rangos on.
Clasificar(v, rangos, h) ==
    LET limiteBuena == rangos.e[1]
        limiteRegular == rangos.e[2]
        r == IF EsBuena(v, limiteBuena) THEN ResultadoBuena
             ELSE IF EsRegular(v, limiteRegular) THEN ResultadoRegular
             ELSE ResultadoMala
    IN  ConLimitesOms(r, LimitesOms(limiteBuena, limiteRegular, h))

(***************************************************************************)
(* function clasificarCalidadAire(contaminante, valor, tiempoHoras).       *)
(* The debug trace of the entry interpolates contaminante in a template    *)
(* literal before anything else is looked at.                              *)
(***************************************************************************)
clasificarCalidadAire(c, v, h) ==
    IF LanzaCadenaDe(c) THEN Lanza(325)
    ELSE IF LanzaToNumber(v) THEN Lanza(330)
    ELSE IF EsValorInvalido(v) THEN Retorna(SinDatosValor)
    ELSE LET rangosContaminante == ObtenerPropiedad(limites, ToPropertyKey(c)) IN
         IF ~Truthy(rangosContaminante) THEN Retorna(SinDatosContaminante(c))
         ELSE LET rangos == ObtenerPropiedad(rangosContaminante, ToPropertyKey(h)) IN
              IF ~Truthy(rangos)
              THEN IF LanzaCadenaDe(h) THEN Lanza(391) ELSE Retorna(SinDatosTiempo(c, h))
              ELSE IF ~EsIterable(rangos) THEN Lanza(395)
              ELSE Retorna(Clasificar(v, rangos, h))

(***************************************************************************)
(* The arguments the caller passes.  Pollutants: the keys of the table, an *)
(* unknown symbol, two names every object inherits, null and a Symbol.     *)
(* Hours: the windows of the table, a window of no pollutant (5), a window *)
(* as a string, an inherited name, null and a Symbol.  Values: numbers     *)
(* around the two limits of the pair (when the pair is in the table),      *)
(* zero, a negative, the infinities, NaN, null, undefined, strings and a   *)
(* Symbol.                                                                 *)
(***************************************************************************)
Contaminantes ==
    {Str(k) : k \in DOMAIN limites.p}
      \cup {Str("Xx-unknown"), Str("constructor"), Str("__proto__"), Null, Sym}

Horas ==
    {Entero(k) : k \in {1, 3, 8, 24, 5}} \cup {Str("8"), Str("constructor"), Null, Sym}

ValoresBase ==
    {Entero(0), Entero(-1), PosInf, NegInf, NaN, Null, Undefined, Str("abc"), Str("12"), Sym}

\* The array of the pair (c, h) when both are own keys of the table.
EsParConocido(c, h) ==
    /\ c.t = "string" /\ c.s \in DOMAIN limites.p
    /\ ~LanzaCadenaDe(h) /\ CadenaDe(h) \in DOMAIN limites.p[c.s].p

RangosDe(c, h) == limites.p[c.s].p[CadenaDe(h)]

ValoresLimite(c, h) ==
    IF EsParConocido(c, h)
    THEN {Num(RangosDe(c, h).e[i].n + d) : i \in {1, 2}, d \in (-MaxDelta)..MaxDelta}
    ELSE {}

Valores(c, h) == ValoresBase \cup ValoresLimite(c, h)

Ninguno == [tipo |-> "none"]

SinPrevio == [nivel |-> "", color |-> ""]

(***************************************************************************)
(* Object identity.  Each return of the function evaluates an object       *)
(* literal, which creates a new object: it gets a reference no object the  *)
(* caller still holds has.  The caller holds at most the object of         *)
(* retenido, so two references suffice.                                    *)
(***************************************************************************)
TieneObjeto(x) == x # Ninguno /\ x.actual.tipo = "return"

NuevaReferencia == IF TieneObjeto(retenido) /\ retenido.actual.ref = 1 THEN 2 ELSE 1

\* A module-level object shared by the calls that return the same literal.
Entregar_Compartido(x) ==
    IF x.tipo # "return" THEN x
    ELSE IF TieneObjeto(retenido) /\ retenido.original.obj = x.obj THEN retenido.actual
    ELSE [tipo |-> "return", obj |-> x.obj, ref |-> NuevaReferencia]

\* What the caller receives: the thrown error, or the new object.
Entregar(x) ==
    IF x.tipo # "return" THEN x
    ELSE [tipo |-> "return", obj |-> x.obj, ref |-> NuevaReferencia]

(***************************************************************************)
(* No call of getDatosHistoricosPorContaminante is under way.               *)
(***************************************************************************)
MaxPeticiones == 2

Peticiones == 1..MaxPeticiones

PeticionLibre == [pc |-> "libre"]

InitHistorico == peticion = [i \in Peticiones |-> PeticionLibre]

(***************************************************************************)
(* The viewer page (src/unnamed/part_000) when the document has loaded:    *)
(* inicializarVisor has started cargarMunicipios, whose request is in      *)
(* flight, and has set the clear button.  A select is its value, its       *)
(* disabled flag and the values of its options other than the placeholder  *)
(* option, whose value is "".                                              *)
(***************************************************************************)
SoloMarcador == [value |-> "", disabled |-> TRUE, opciones |-> {}]

SinMarcadores == [k \in {} |-> [color |-> "", resaltado |-> FALSE, interactivo |-> FALSE]]

Tarea(tipo, m, y, e, x) == [tipo |-> tipo, m |-> m, y |-> y, e |-> e, x |-> x]

VisorInicial ==
    [selectMunicipio |-> [value |-> "", disabled |-> FALSE, opciones |-> {}],
     selectAnio |-> SoloMarcador,
     selectEstacion |-> SoloMarcador,
     selectContaminante |-> SoloMarcador,
     btnLimpiarFiltros |-> [disabled |-> TRUE],
     infoBoxControl |-> Null,
     marcadoresEstaciones |-> SinMarcadores,
     estacionSeleccionada |-> Null,
     capaMunicipios |-> {},
     panel |-> "instrucciones",
     enVuelo |-> SetToBag({Tarea("municipios", "", "", "", "")}),
     temporizadores |-> <<>>,
     huboError |-> FALSE,
     anioRecienElegido |-> FALSE,
     intactos |-> <<>>]

InitVisor == visor = VisorInicial

InitResto == InitHistorico /\ InitVisor

(***************************************************************************)
(* Module load: let pool; conectarPostgres() is called while the module    *)
(* loads and assigns pool = new Pool({... ssl ...}) before its first       *)
(* await, so every later step sees a pool.                                 *)
(***************************************************************************)
InitModulo ==
    /\ pool = [ssl |-> TRUE]
    /\ pcConexion = "conectando"

(***************************************************************************)
(* The state machine: a caller passes three arguments (Invocar), the       *)
(* function runs to its return or to its throw (Ejecutar).  previo keeps   *)
(* the nivel and color of the last result returned before the current call.*)
(***************************************************************************)
Init ==
    /\ contaminante \in Contaminantes
    /\ tiempoHoras \in Horas
    /\ valor \in Valores(contaminante, tiempoHoras)
    /\ resultado = Ninguno
    /\ previo = SinPrevio
    /\ pc = "entrada"
    /\ retenido = Ninguno
    /\ InitModulo
    /\ InitResto

Ejecutar_EscribePool ==
    /\ pc = "entrada"
    /\ resultado' = Entregar(clasificarCalidadAire(contaminante, valor, tiempoHoras))
    /\ pc' = "retorno"
    /\ pool' = [ssl |-> FALSE]
    /\ UNCHANGED <<contaminante, valor, tiempoHoras, previo, retenido, pcConexion, varsResto>>

Ejecutar ==
    /\ pc = "entrada"
    /\ resultado' = Entregar(clasificarCalidadAire(contaminante, valor, tiempoHoras))
    /\ pc' = "retorno"
    /\ UNCHANGED <<contaminante, valor, tiempoHoras, previo, retenido, varsModulo, varsResto>>

Invocar ==
    /\ pc = "retorno"
    /\ \E c \in Contaminantes, h \in Horas :
         \E v \in Valores(c, h) :
            /\ contaminante' = c
            /\ tiempoHoras' = h
            /\ valor' = v
    /\ previo' = IF resultado.tipo = "return"
                 THEN [nivel |-> resultado.obj.nivel, color |-> resultado.obj.color]
                 ELSE previo
    /\ resultado' = Ninguno
    /\ pc' = "entrada"
    /\ UNCHANGED <<retenido, varsModulo, varsResto>>

Next == Ejecutar \/ Invocar

Spec == Init /\ [][Next]_vars

(***************************************************************************)
(* What the claims speak of.                                               *)
(***************************************************************************)
Retornado == pc = "retorno" /\ resultado.tipo = "return"

TieneEco(r) == "limites_oms" \in DOMAIN r

\* v is a number with v <= lim, resp. v > lim (lim a finite number).
ValorHasta(v, lim) == (EsFinito(v) /\ v.n <= lim.n) \/ v = NegInf

ValorSobre(v, lim) == (EsFinito(v) /\ v.n > lim.n) \/ v = PosInf

\* value is a valid number: of type number and not NaN.
EsNumeroValido(v) == EsNumero(v) /\ v # NaN

\* The pollutant is a key of the threshold table.
EsContaminanteConocido(c) == c.t = "string" /\ c.s \in DOMAIN limites.p

\* C1: for every pair of the table and every number v <= goodLimit (v equal
\* to goodLimit included) the function returns Buena with color #00E400.
C1_BuenaHastaLimiteBuena ==
    (/\ pc = "retorno"
     /\ EsParConocido(contaminante, tiempoHoras)
     /\ ValorHasta(valor, RangosDe(contaminante, tiempoHoras).e[1]))
    => (/\ resultado.tipo = "return"
        /\ resultado.obj.nivel = "Buena"
        /\ resultado.obj.color = "#00E400")

C1_Witness ==
    /\ Retornado
    /\ contaminante = Str("CO") /\ tiempoHoras = Entero(8) /\ valor = Entero(7000)
    /\ resultado.obj.nivel = "Buena"

\* C2: for every pair of the table and every number v with
\* goodLimit < v <= moderateLimit the function returns Regular with color
\* #FFFF00; v equal to moderateLimit is Regular, not Mala.
C2_RegularHastaLimiteRegular ==
    (/\ pc = "retorno"
     /\ EsParConocido(contaminante, tiempoHoras)
     /\ ValorSobre(valor, RangosDe(contaminante, tiempoHoras).e[1])
     /\ ValorHasta(valor, RangosDe(contaminante, tiempoHoras).e[2]))
    => (/\ resultado.tipo = "return"
        /\ resultado.obj.nivel = "Regular"
        /\ resultado.obj.color = "#FFFF00")

C2_Witness ==
    /\ Retornado
    /\ contaminante = Str("CO") /\ tiempoHoras = Entero(8) /\ valor = Entero(10000)
    /\ resultado.obj.nivel = "Regular"

\* C3: for every pair of the table and every number v > moderateLimit the
\* function returns Mala with color #FF0000.
C3_MalaSobreLimiteRegular ==
    (/\ pc = "retorno"
     /\ EsParConocido(contaminante, tiempoHoras)
     /\ ValorSobre(valor, RangosDe(contaminante, tiempoHoras).e[2]))
    => (/\ resultado.tipo = "return"
        /\ resultado.obj.nivel = "Mala"
        /\ resultado.obj.color = "#FF0000")

C3_Witness ==
    /\ Retornado
    /\ contaminante = Str("NO2") /\ tiempoHoras = Entero(1) /\ valor = Num(360 * Scale + 1)
    /\ resultado.obj.nivel = "Mala"

\* C4: for every input, malformed, unknown or wrongly typed ones included,
\* the function returns without raising an error, and the result has a nivel
\* among Buena, Regular, Mala, Sin datos, with a color and a descripcion.
C4_NuncaLanza ==
    pc = "retorno"
    => (/\ resultado.tipo = "return"
        /\ resultado.obj.nivel \in {"Buena", "Regular", "Mala", "Sin datos"}
        /\ {"color", "descripcion"} \subseteq DOMAIN resultado.obj)

\* C5: if valor is null, undefined or NaN the function returns Sin datos,
\* color #9E9E9E, with the no-data description and without limites_oms.
C5_ValorAusenteSinDatos ==
    (pc = "retorno" /\ valor \in {Null, Undefined, NaN})
    => (/\ resultado.tipo = "return"
        /\ resultado.obj.nivel = "Sin datos"
        /\ resultado.obj.color = "#9E9E9E"
        /\ resultado.obj.descripcion = "No hay información disponible para esta medición"
        /\ ~TieneEco(resultado.obj))

\* C6: if valor is a valid number and the pollutant has no entry in the
\* table, the function returns Sin datos with the description that names
\* the pollutant, which is neither the no-data description nor the
\* unsupported-window description.
C6_ContaminanteDesconocido ==
    (/\ pc = "retorno"
     /\ EsNumeroValido(valor)
     /\ ~EsContaminanteConocido(contaminante))
    => (/\ resultado.tipo = "return"
        /\ resultado.obj.nivel = "Sin datos"
        /\ resultado.obj.descripcion
             = "No hay parámetros de referencia para " \o CadenaDe(contaminante)
        /\ resultado.obj.descripcion # "No hay información disponible para esta medición"
        /\ resultado.obj.descripcion
             # ("No hay parámetros para " \o CadenaDe(contaminante) \o " con "
                  \o CadenaDe(tiempoHoras) \o "h de exposición"))

\* C7: if valor is a valid number and the pollutant is in the table but
\* tiempoHoras is not one of its windows, the function returns Sin datos
\* with the description naming the pollutant and the window; no other
\* window is used in its place.
C7_TiempoNoSoportado ==
    (/\ pc = "retorno"
     /\ EsNumeroValido(valor)
     /\ EsContaminanteConocido(contaminante)
     /\ ~EsParConocido(contaminante, tiempoHoras))
    => (/\ resultado.tipo = "return"
        /\ resultado.obj.nivel = "Sin datos"
        /\ ~TieneEco(resultado.obj)
        /\ resultado.obj.descripcion
             = ("No hay parámetros para " \o CadenaDe(contaminante) \o " con "
                  \o CadenaDe(tiempoHoras) \o "h de exposición"))

\* The reference table of the specification (section 6): pollutant and
\* window in hours -> <<goodLimit, moderateLimit>>.
TablaDeReferencia ==
    (<<"O3", 1>> :> <<100, 160>>) @@ (<<"O3", 8>> :> <<60, 100>>)
    @@ (<<"PM10", 1>> :> <<50, 100>>) @@ (<<"PM10", 24>> :> <<45, 75>>)
    @@ (<<"PM2.5", 1>> :> <<15, 25>>) @@ (<<"PM2.5", 24>> :> <<15, 25>>)
    @@ (<<"SO2", 1>> :> <<100, 196>>) @@ (<<"SO2", 3>> :> <<100, 250>>)
    @@ (<<"SO2", 24>> :> <<40, 125>>)
    @@ (<<"NO2", 1>> :> <<200, 360>>) @@ (<<"NO2", 24>> :> <<25, 50>>)
    @@ (<<"CO", 1>> :> <<4000, 10000>>) @@ (<<"CO", 8>> :> <<7000, 10000>>)
    @@ (<<"NO", 1>> :> <<100, 200>>)

\* The entries of the table the function uses, as <<pollutant, hours key, array>>.
EntradasDeLimites ==
    UNION {{<<c, k, limites.p[c].p[k].e>> : k \in DOMAIN limites.p[c].p} : c \in DOMAIN limites.p}

EntradasDeReferencia ==
    {<<par[1], DigitosDe(par[2]), <<Entero(TablaDeReferencia[par][1]), Entero(TablaDeReferencia[par][2])>>>> :
        par \in DOMAIN TablaDeReferencia}

\* C8: the table the function uses is the reference table: the same 14
\* pairs with the same two limits, none missing and none added.  So a call
\* with a pollutant symbol, a finite value and a number of hours is
\* classified exactly when the pair is one of the 14, against its two
\* reference limits.
C8_TablaEsLaDeReferencia ==
    /\ EntradasDeLimites = EntradasDeReferencia
    /\ (pc = "retorno" /\ contaminante.t = "string" /\ EsFinito(valor) /\ EsFinito(tiempoHoras))
       => (/\ resultado.tipo = "return"
           /\ TieneEco(resultado.obj)
                <=> (\E par \in DOMAIN TablaDeReferencia :
                        contaminante.s = par[1] /\ tiempoHoras = Entero(par[2]))
           /\ \A par \in DOMAIN TablaDeReferencia :
                (contaminante.s = par[1] /\ tiempoHoras = Entero(par[2]))
                => (/\ resultado.obj.limites_oms.buena = Entero(TablaDeReferencia[par][1])
                    /\ resultado.obj.limites_oms.regular = Entero(TablaDeReferencia[par][2])))

C8_Witness ==
    /\ Retornado
    /\ contaminante = Str("SO2") /\ tiempoHoras = Entero(3) /\ valor = Entero(0)
    /\ resultado.obj.limites_oms.buena = Entero(100)
    /\ resultado.obj.limites_oms.regular = Entero(250)

\* C9: a returned result carries limites_oms (buena, regular, tiempo_horas
\* and the fixed source label) if and only if its nivel is not Sin datos;
\* then buena and regular are the two limits of the pair that valor was
\* compared against, and tiempo_horas is the tiempoHoras passed in.
C9_EcoSiYSoloSiClasificado ==
    Retornado
    => LET r == resultado.obj IN
       /\ TieneEco(r) <=> r.nivel # "Sin datos"
       /\ TieneEco(r)
          => (/\ DOMAIN r.limites_oms = {"buena", "regular", "tiempo_horas", "fuente"}
              /\ r.limites_oms.fuente = "OMS 2021"
              /\ r.limites_oms.tiempo_horas = tiempoHoras
              /\ EsParConocido(contaminante, tiempoHoras)
              /\ r.limites_oms.buena = RangosDe(contaminante, tiempoHoras).e[1]
              /\ r.limites_oms.regular = RangosDe(contaminante, tiempoHoras).e[2]
              /\ r.nivel = "Buena" <=> ValorHasta(ToNumber(valor), r.limites_oms.buena)
              /\ r.nivel = "Mala" <=> ValorSobre(ToNumber(valor), r.limites_oms.regular))

C9_Witness ==
    /\ Retornado
    /\ contaminante = Str("PM10") /\ tiempoHoras = Entero(24) /\ valor = Num(45 * Scale + 1)
    /\ resultado.obj.nivel = "Regular"
    /\ resultado.obj.limites_oms
         = [buena |-> Entero(45), regular |-> Entero(75), tiempo_horas |-> Entero(24),
            fuente |-> "OMS 2021"]

\* C10: color is bound one-to-one to nivel: Buena #00E400, Regular #FFFF00,
\* Mala #FF0000, Sin datos #9E9E9E, so that two returned results have the
\* same nivel if and only if they have the same color.
C10_ColorUnoAUnoConNivel ==
    Retornado
    => (/\ <<resultado.obj.nivel, resultado.obj.color>>
             \in {<<"Buena", "#00E400">>, <<"Regular", "#FFFF00">>,
                  <<"Mala", "#FF0000">>, <<"Sin datos", "#9E9E9E">>}
        /\ previo # SinPrevio
           => (resultado.obj.nivel = previo.nivel <=> resultado.obj.color = previo.color))

C10_Witness ==
    /\ Retornado
    /\ previo = [nivel |-> "Mala", color |-> "#FF0000"]
    /\ resultado.obj.nivel = "Regular" /\ resultado.obj.color = "#FFFF00"


\* Every <<nivel, descripcion>> a call with arguments of the model can return.
NivelesYDescripciones ==
    {<<r.obj.nivel, r.obj.descripcion>> :
        r \in {x \in UNION {{clasificarCalidadAire(c, v, h) : v \in Valores(c, h)} :
                               c \in Contaminantes, h \in Horas} : x.tipo = "return"}}

\* C11 as claimed: descripcion is bound one-to-one to nivel: a returned
\* result and any other result the function can return have the same nivel
\* if and only if they have the same descripcion.
C11_DescripcionUnoAUnoConNivel ==
    Retornado
    => \A par \in NivelesYDescripciones :
          resultado.obj.nivel = par[1] <=> resultado.obj.descripcion = par[2]

\* C11 as amended: the descripcion determines the nivel (two results with
\* the same descripcion have the same nivel), and two results with the same
\* nivel other than Sin datos have the same descripcion; the descripcion of
\* a Sin datos result is one of the three texts of its cause, built from
\* contaminante and tiempoHoras.
C11_DescripcionFijaSalvoSinDatos ==
    Retornado
    => /\ \A par \in NivelesYDescripciones :
            /\ resultado.obj.descripcion = par[2] => resultado.obj.nivel = par[1]
            /\ (resultado.obj.nivel = par[1] /\ par[1] # "Sin datos")
               => resultado.obj.descripcion = par[2]
       /\ resultado.obj.nivel = "Sin datos"
          => resultado.obj.descripcion
               \in {"No hay información disponible para esta medición",
                    "No hay parámetros de referencia para " \o CadenaDe(contaminante),
                    "No hay parámetros para " \o CadenaDe(contaminante) \o " con "
                       \o CadenaDe(tiempoHoras) \o "h de exposición"}

\* Two Sin datos results with different descriptions, and a classified one.
C11_Witness ==
    /\ Retornado
    /\ resultado.obj.nivel = "Sin datos"
    /\ resultado.obj.descripcion = "No hay parámetros para O3 con 5h de exposición"
    /\ <<"Sin datos", "No hay parámetros de referencia para Xx-unknown">> \in NivelesYDescripciones
    /\ \E par \in NivelesYDescripciones : par[1] = "Mala"


(***************************************************************************)
(* conectarPostgres, after the assignment of pool that precedes its first  *)
(* await: the connection with SSL succeeds, or fails with "does not        *)
(* support SSL" and pool is replaced by a pool without SSL, or fails       *)
(* otherwise; the second connection succeeds or its rejection ends the     *)
(* function.                                                               *)
(***************************************************************************)
ConexionLista ==
    /\ pcConexion \in {"conectando", "reintentando"}
    /\ pcConexion' = "listo"
    /\ UNCHANGED <<varsLlamada, retenido, pool, varsResto>>

ReintentarSinSSL ==
    /\ pcConexion = "conectando"
    /\ pool' = [ssl |-> FALSE]
    /\ pcConexion' = "reintentando"
    /\ UNCHANGED <<varsLlamada, retenido, varsResto>>

ConexionFalla ==
    /\ pcConexion \in {"conectando", "reintentando"}
    /\ pcConexion' = "error"
    /\ UNCHANGED <<varsLlamada, retenido, pool, varsResto>>

conectarPostgres == ConexionLista \/ ReintentarSinSSL \/ ConexionFalla

(***************************************************************************)
(* Sequences of calls.  The arguments are the concrete scenarios of the    *)
(* specification (section 8) and one call that throws.  When the caller    *)
(* makes the next call it may keep the object the last call returned       *)
(* (retenido: the arguments, the outcome as returned, and the object as it *)
(* is now); it may write a field of the object it holds.                   *)
(***************************************************************************)
Referencias ==
    {<<Str("PM2.5"), Entero(12), Entero(24)>>,
     <<Str("PM2.5"), Entero(20), Entero(24)>>,
     <<Str("PM2.5"), Entero(30), Entero(24)>>,
     <<Str("CO"), Entero(10000), Entero(8)>>,
     <<Str("NO2"), Entero(400), Entero(1)>>,
     <<Str("SO2"), Null, Entero(24)>>,
     <<Str("PM2.5"), NaN, Entero(24)>>,
     <<Str("Xx-unknown"), Entero(10), Entero(24)>>,
     <<Str("O3"), Entero(50), Entero(5)>>,
     <<Str("O3"), Entero(50), Str("constructor")>>}

InitSecuencia ==
    /\ \E t \in Referencias :
         /\ contaminante = t[1]
         /\ valor = t[2]
         /\ tiempoHoras = t[3]
    /\ resultado = Ninguno
    /\ previo = SinPrevio
    /\ pc = "entrada"
    /\ retenido = Ninguno
    /\ InitModulo
    /\ InitResto

InvocarReferencia ==
    /\ pc = "retorno"
    /\ \E t \in Referencias :
         /\ contaminante' = t[1]
         /\ valor' = t[2]
         /\ tiempoHoras' = t[3]
    /\ \E retener \in BOOLEAN :
         retenido' = IF retener
                     THEN [contaminante |-> contaminante, valor |-> valor,
                           tiempoHoras |-> tiempoHoras,
                           original |-> resultado, actual |-> resultado]
                     ELSE retenido
    /\ previo' = IF resultado.tipo = "return"
                 THEN [nivel |-> resultado.obj.nivel, color |-> resultado.obj.color]
                 ELSE previo
    /\ resultado' = Ninguno
    /\ pc' = "entrada"
    /\ UNCHANGED <<varsModulo, varsResto>>

\* The caller writes the field nivel of the object it holds; resultado is
\* the same object when it has the same reference.
Alterado(x) == [x EXCEPT !.obj.nivel = "alterado"]

Mutar ==
    /\ TieneObjeto(retenido)
    /\ retenido.actual.obj.nivel # "alterado"
    /\ retenido' = [retenido EXCEPT !.actual = Alterado(retenido.actual)]
    /\ resultado' = IF resultado.tipo = "return" /\ resultado.ref = retenido.actual.ref
                    THEN Alterado(resultado)
                    ELSE resultado
    /\ UNCHANGED <<contaminante, valor, tiempoHoras, previo, pc, varsModulo, varsResto>>

NextSecuencia == Ejecutar \/ InvocarReferencia \/ Mutar \/ conectarPostgres

SpecSecuencia == InitSecuencia /\ [][NextSecuencia]_vars


\* A step in which the function runs, from its entry to its return or throw.
PasoDeLlamada == pc = "entrada" /\ pc' = "retorno"

\* The outcome without the identity of the returned object.
Contenido(x) == IF x.tipo = "return" THEN [tipo |-> "return", obj |-> x.obj] ELSE x

MismosArgumentos(m) ==
    m.contaminante = contaminante /\ m.valor = valor /\ m.tiempoHoras = tiempoHoras

\* C12: the function is deterministic: a call with the arguments of an
\* earlier call, whatever calls were made in between and whatever the
\* caller did with the earlier result, returns what the earlier call
\* returned (or throws what it threw).
C12_Determinista ==
    [][(PasoDeLlamada /\ retenido # Ninguno /\ MismosArgumentos(retenido))
         => Contenido(resultado') = Contenido(retenido.original)]_vars

C12_Witness ==
    /\ Retornado
    /\ TieneObjeto(retenido) /\ MismosArgumentos(retenido)
    /\ contaminante = Str("CO") /\ valor = Entero(10000) /\ tiempoHoras = Entero(8)
    /\ retenido.actual.obj.nivel = "alterado"
    /\ previo # [nivel |-> "Regular", color |-> "#FFFF00"]
    /\ resultado.obj.nivel = "Regular"

\* C13: a call of the function changes no shared state: pool and the state
\* of the connection are after the call what they were before it, the
\* object an earlier call returned is left as it is, and the object
\* returned is a new one: it is not the object the caller holds, and it has
\* the content of the literal even when the caller has written to the
\* object it holds.
C13_SinEfectosEnEstadoCompartido ==
    [][PasoDeLlamada
         => /\ pool' = pool /\ pcConexion' = pcConexion
            /\ retenido' = retenido
            /\ (resultado'.tipo = "return" /\ TieneObjeto(retenido))
               => resultado'.ref # retenido.actual.ref
            /\ Contenido(resultado')
                 = Contenido(clasificarCalidadAire(contaminante, valor, tiempoHoras))]_vars

C13_Witness ==
    /\ Retornado
    /\ TieneObjeto(retenido)
    /\ retenido.actual.obj.nivel = "alterado"
    /\ retenido.original.obj.nivel = "Sin datos"
    /\ resultado.obj.nivel = "Sin datos"
    /\ resultado.ref # retenido.actual.ref
    /\ pool = [ssl |-> FALSE]


(***************************************************************************)
(* getDatosHistoricosPorContaminante (lines 455-568).  An async function:  *)
(* it runs up to await pool.query(...), is suspended until the driver      *)
(* settles the promise, and its continuation then runs to completion.      *)
(* Several calls may be suspended at once; the settling of a promise and   *)
(* the continuation it schedules are separate events of the event loop.    *)
(***************************************************************************)

\* parseFloat(v): ToString, then the longest numeric prefix; the empty
\* string and every non-numeric text (such as "null") give NaN.
parseFloat(v) ==
    LET s == CadenaDe(v) IN
    IF s # "" /\ s \in DOMAIN LiteralesNumericos THEN Entero(LiteralesNumericos[s]) ELSE NaN

\* Rows the query can produce.  NUMERIC columns arrive as strings or null;
\* tiempo_horas is an integer column.  The rows with otras = "altas" differ
\* from those with otras = "bajas" only in the statistics that the
\* classification does not use.
SimbolosDeFila == {Str("PM2.5"), Str("O3"), Str("Xx-unknown")}

PromediosDeFila == {Str("12"), Str("20"), Str("30"), Null}

Fila(simbolo, promedio, altas) ==
    [simbolo_contaminante |-> simbolo,
     promedio |-> promedio,
     tiempo_horas |-> Entero(24),
     mediana |-> Str("12"),
     minimo |-> Str("5"),
     maximo |-> IF altas THEN Str("40") ELSE Str("10"),
     percentil_98 |-> IF altas THEN Str("35") ELSE Str("10"),
     dias_excendecias |-> IF altas THEN Entero(30) ELSE Entero(0),
     excedencias_limite_actual |-> IF altas THEN Entero(30) ELSE Entero(0),
     porcentaje_excedencias |-> IF altas THEN Str("8") ELSE Str("")]

Filas == {Fila(s, p, a) : s \in SimbolosDeFila, p \in PromediosDeFila, a \in BOOLEAN}

ValorClasificado_Maximo(datos) == parseFloat(datos.maximo)

\* Line 522: the value handed to the classification.
ValorClasificado(datos) == parseFloat(datos.promedio)

\* Lines 513-562: what the continuation makes of the rows it received.
ResponderHistorico(rows) ==
    IF Len(rows) = 0 THEN [tipo |-> "return", obj |-> Null]
    ELSE LET datos == rows[1]
             clasificacion == clasificarCalidadAire(datos.simbolo_contaminante,
                                                    ValorClasificado(datos),
                                                    datos.tiempo_horas)
         IN  IF clasificacion.tipo = "throw" THEN clasificacion
             ELSE [tipo |-> "return",
                   obj |-> [contaminante |->
                                [simbolo |-> datos.simbolo_contaminante,
                                 tiempo_exposicion |-> [horas |-> datos.tiempo_horas]],
                            estadisticas |->
                                [promedio |-> parseFloat(datos.promedio),
                                 mediana |-> parseFloat(datos.mediana),
                                 percentil_98 |-> parseFloat(datos.percentil_98),
                                 maximo |-> parseFloat(datos.maximo),
                                 minimo |-> parseFloat(datos.minimo)],
                            excedencias |->
                                [dias_excendecias |-> datos.dias_excendecias,
                                 excedencias_limite_actual |-> datos.excedencias_limite_actual,
                                 porcentaje_excedencias |-> parseFloat(datos.porcentaje_excedencias)],
                            clasificacion |-> clasificacion.obj]]

\* The continuation of one call reading what another call's query produced.
FilasRecibidas_DeLaUltima(i) ==
    LET conFilas == {j \in Peticiones : peticion[j].pc \in {"recibido", "hecho"}
                                        /\ peticion[j].estado = "fulfilled"}
    IN  peticion[CHOOSE j \in conFilas : \A k \in conFilas : k <= j].rows

\* Line 511: const resultado is local to the call, so the continuation reads
\* the rows of its own query.
FilasRecibidas(i) == peticion[i].rows

\* Lines 455-511: the call builds the statement, starts the query on the
\* pool and is suspended at the await.
Solicitar(i) ==
    /\ peticion[i].pc = "libre"
    /\ peticion' = [peticion EXCEPT ![i] = [pc |-> "esperando"]]
    /\ UNCHANGED <<varsLlamada, retenido, varsModulo, visor>>

\* The driver fulfils the promise of pool.query with no row or with one row
\* (LIMIT 1), or rejects it.
ResponderConsulta(i) ==
    /\ peticion[i].pc = "esperando"
    /\ \/ \E rows \in {<<>>} \cup {<<f>> : f \in Filas} :
            peticion' = [peticion EXCEPT
                            ![i] = [pc |-> "recibido", estado |-> "fulfilled", rows |-> rows]]
       \/ peticion' = [peticion EXCEPT
                            ![i] = [pc |-> "recibido", estado |-> "rejected", rows |-> <<>>]]
    /\ UNCHANGED <<varsLlamada, retenido, varsModulo, visor>>

\* Lines 511-567: the continuation; a rejected query and a throwing
\* classification both pass through the catch, which rethrows.
Reanudar(i) ==
    /\ peticion[i].pc = "recibido"
    /\ peticion' = [peticion EXCEPT
                       ![i] = [pc |-> "hecho",
                               estado |-> peticion[i].estado,
                               rows |-> peticion[i].rows,
                               retorno |-> IF peticion[i].estado = "rejected"
                                           THEN [tipo |-> "throw", error |-> "query"]
                                           ELSE ResponderHistorico(FilasRecibidas(i))]]
    /\ UNCHANGED <<varsLlamada, retenido, varsModulo, visor>>

getDatosHistoricosPorContaminante ==
    \E i \in Peticiones : Solicitar(i) \/ ResponderConsulta(i) \/ Reanudar(i)

\* No call of clasificarCalidadAire from outside getDatosHistoricosPorContaminante.
InitLlamadaEnReposo ==
    /\ contaminante = Null
    /\ valor = Null
    /\ tiempoHoras = Null
    /\ resultado = Ninguno
    /\ previo = SinPrevio
    /\ pc = "reposo"
    /\ retenido = Ninguno

InitHistoricoSolo ==
    /\ InitLlamadaEnReposo
    /\ InitModulo
    /\ InitResto

NextHistorico == getDatosHistoricosPorContaminante

SpecHistorico == InitHistoricoSolo /\ [][NextHistorico]_vars


(***************************************************************************)
(* Claims about getDatosHistoricosPorContaminante, under SpecHistorico.    *)
(***************************************************************************)
Hecha(i) == peticion[i].pc = "hecho"

ConFila(i) == Hecha(i) /\ peticion[i].estado = "fulfilled" /\ Len(peticion[i].rows) = 1

Clasificada(i) == ConFila(i) /\ peticion[i].retorno.tipo = "return"

ReanudaPeticion(i) == peticion[i].pc = "recibido" /\ peticion'[i].pc = "hecho"

\* C14: whatever the interleaving of the calls under way, the continuation
\* of a call returns what the call returns when it runs alone, that is the
\* response made from the rows of its own query, and the step changes
\* nothing of any other call, whether suspended or finished.
C14_ConcurrenciaSinInterferencia ==
    [][\A i \in Peticiones :
          ReanudaPeticion(i)
            => /\ peticion[i].estado = "fulfilled"
                  => peticion'[i].retorno = ResponderHistorico(peticion[i].rows)
               /\ \A j \in Peticiones \ {i} : peticion'[j] = peticion[j]
               /\ pool' = pool]_vars

\* One call has finished with a good-tier response while another call, whose
\* query was answered with a poor-tier row, is still waiting to continue.
C14_Witness ==
    /\ Clasificada(1)
    /\ peticion[1].retorno.obj.clasificacion.nivel = "Buena"
    /\ peticion[2].pc = "recibido"
    /\ peticion[2].estado = "fulfilled"
    /\ Len(peticion[2].rows) = 1
    /\ peticion[2].rows[1].promedio = Str("30")
    /\ peticion[2].rows[1].simbolo_contaminante = Str("PM2.5")

\* C16: the classification in the response is
\* clasificarCalidadAire(simbolo_contaminante, parseFloat(promedio),
\* tiempo_horas) of the fetched row, and two responses made from rows that
\* agree on those three fields carry the same classification whatever the
\* other statistics of the rows are.
C16_ClasificaSoloPorPromedio ==
    /\ \A i \in Peticiones :
          Clasificada(i)
            => LET datos == peticion[i].rows[1] IN
               Retorna(peticion[i].retorno.obj.clasificacion)
                 = clasificarCalidadAire(datos.simbolo_contaminante,
                                         parseFloat(datos.promedio),
                                         datos.tiempo_horas)
    /\ \A i, j \in Peticiones :
          (/\ Clasificada(i) /\ Clasificada(j)
           /\ peticion[i].rows[1].simbolo_contaminante = peticion[j].rows[1].simbolo_contaminante
           /\ peticion[i].rows[1].promedio = peticion[j].rows[1].promedio
           /\ peticion[i].rows[1].tiempo_horas = peticion[j].rows[1].tiempo_horas)
            => peticion[i].retorno.obj.clasificacion = peticion[j].retorno.obj.clasificacion

\* Two responses from rows that differ only in the unused statistics, with an
\* average in the good tier and a maximum in the poor tier.
C16_Witness ==
    /\ Clasificada(1) /\ Clasificada(2)
    /\ peticion[1].rows[1].maximo # peticion[2].rows[1].maximo
    /\ peticion[1].rows[1].promedio = Str("12") /\ peticion[2].rows[1].promedio = Str("12")
    /\ peticion[1].rows[1].simbolo_contaminante = Str("PM2.5")
    /\ peticion[2].rows[1].simbolo_contaminante = Str("PM2.5")
    /\ peticion[1].retorno.obj.estadisticas.maximo # peticion[2].retorno.obj.estadisticas.maximo
    /\ peticion[1].retorno.obj.clasificacion.nivel = "Buena"
    /\ peticion[2].retorno.obj.clasificacion.nivel = "Buena"


\* The exposure windows the data model allows.
VentanasPermitidas == {1, 3, 8, 24}

\* C15: every entry of the table has 0 <= good limit <= moderate limit and
\* is filed under one of the windows 1, 3, 8, 24; so whenever a call is
\* classified against an entry, the two limits it echoes are so ordered and
\* the hours it was asked for name one of those windows.
C15_TablaBienFormada ==
    /\ \A e \in EntradasDeLimites :
          /\ \E k \in VentanasPermitidas : e[2] = DigitosDe(k)
          /\ Len(e[3]) = 2
          /\ EsFinito(e[3][1]) /\ EsFinito(e[3][2])
          /\ 0 <= e[3][1].n /\ e[3][1].n <= e[3][2].n
    /\ (Retornado /\ TieneEco(resultado.obj))
          => /\ 0 <= resultado.obj.limites_oms.buena.n
             /\ resultado.obj.limites_oms.buena.n <= resultado.obj.limites_oms.regular.n
             /\ \E k \in VentanasPermitidas : ToPropertyKey(tiempoHoras).s = DigitosDe(k)

\* A call classified against the entry for CO over 8 hours.
C15_Witness ==
    /\ Retornado
    /\ contaminante = Str("CO") /\ tiempoHoras = Entero(8)
    /\ TieneEco(resultado.obj)
    /\ resultado.obj.limites_oms.buena = Entero(7000)
    /\ resultado.obj.limites_oms.regular = Entero(10000)


\* C17: the checks have a fixed precedence.  A null, undefined or NaN valor
\* gives the no-data result whatever the pollutant and the hours are; with a
\* valid valor, a pollutant that is not in the table gives the
\* unknown-pollutant result whatever the hours are; and the
\* unsupported-window result is returned only for a valid valor and a
\* pollutant of the table.
C17_PrecedenciaDeChequeos ==
    pc = "retorno"
    => /\ valor \in {Null, Undefined, NaN}
            => (/\ resultado.tipo = "return"
                /\ resultado.obj = SinDatosValor)
       /\ (EsNumeroValido(valor) /\ ~EsContaminanteConocido(contaminante))
            => (/\ resultado.tipo = "return"
                /\ resultado.obj = SinDatosContaminante(contaminante))
       /\ (/\ resultado.tipo = "return"
           /\ ~LanzaCadenaDe(tiempoHoras)
           /\ resultado.obj = SinDatosTiempo(contaminante, tiempoHoras))
            => (EsNumeroValido(valor) /\ EsContaminanteConocido(contaminante))


\* The order Buena < Regular < Mala of the tiers.
Rango(nivel) == CASE nivel = "Buena" -> 1 [] nivel = "Regular" -> 2 [] nivel = "Mala" -> 3 [] OTHER -> 0

\* C18: for a pair of the table the tier is monotone in the value: the call
\* made with a number returns a tier that is not below the tier of any
\* smaller number and not above the tier of any larger number for the same
\* pair; and a value that is zero or negative is Buena.
C18_NivelMonotono ==
    (/\ pc = "retorno"
     /\ EsParConocido(contaminante, tiempoHoras)
     /\ EsNumeroValido(valor))
    => /\ resultado.tipo = "return"
       /\ Rango(resultado.obj.nivel) \in 1..3
       /\ MenorOIgualNum(valor, Entero(0)) => resultado.obj.nivel = "Buena"
       /\ \A w \in Valores(contaminante, tiempoHoras) :
             EsNumeroValido(w)
               => LET r == clasificarCalidadAire(contaminante, w, tiempoHoras) IN
                  /\ r.tipo = "return"
                  /\ MenorOIgualNum(w, valor)
                       => Rango(r.obj.nivel) <= Rango(resultado.obj.nivel)
                  /\ MenorOIgualNum(valor, w)
                       => Rango(resultado.obj.nivel) <= Rango(r.obj.nivel)

\* A negative value classified for a pair of the table, below values of the
\* same pair that are Regular and Mala.
C18_Witness ==
    /\ Retornado
    /\ contaminante = Str("NO2") /\ tiempoHoras = Entero(24) /\ valor = Entero(-1)
    /\ resultado.obj.nivel = "Buena"
    /\ \E w \in Valores(contaminante, tiempoHoras) :
          EsNumeroValido(w) /\ clasificarCalidadAire(contaminante, w, tiempoHoras).obj.nivel = "Mala"


(***************************************************************************)
(* The viewer page, src/unnamed/part_000.  The page is single-threaded: a  *)
(* listener runs to its first await, where its request joins enVuelo, and  *)
(* its continuation runs when the response of that request arrives (the    *)
(* requests in flight are a bag: the same request may be pending twice).   *)
(* The                                                                     *)
(* user acts on the page while requests are in flight, and responses       *)
(* arrive in any order.  Functions of the page are operators from the      *)
(* page's state u to its next state.                                       *)
(***************************************************************************)
MaxEnVuelo == 2

MaxTemporizadores == 1

\* What the server holds: municipalities, the years with data of each, the
\* stations of each, the stations operating in a year (one station in
\* municipality 1, two in municipality 2), the exposure times measured by a
\* station in a year (none for station 22, whose request gets a 404).  Identifiers are numbers in the JSON
\* and text in the request paths and in the option values.
Municipios == {1, 2}

Anios == {2020}

Estaciones == {11, 12, 21, 22}

Exposiciones == {101}

Ids(S) == {DigitosDe(k) : k \in S}

ServidorAnios(m) ==
    CASE m = "1" -> {2020} [] m = "2" -> {2020} [] OTHER -> {}

ServidorEstaciones(m) ==
    CASE m = "1" -> {11, 12} [] m = "2" -> {21, 22} [] OTHER -> {}

ServidorEstacionesAnio(m, y) ==
    CASE m = "1" /\ y = "2020" -> {11}
      [] m = "2" /\ y = "2020" -> {21, 22}
      [] OTHER -> {}

ServidorContaminantes(e, y) ==
    CASE e = "11" /\ y = "2020" -> {101}
      [] e = "21" /\ y = "2020" -> {101}
      [] OTHER -> {}

\* GET /api/datos: the response of getDatosHistoricosPorContaminante for
\* the row of the station, year and exposure time.
ServidorDatos(e, y, x) ==
    ResponderHistorico(<<Fila(Str("PM2.5"), IF e = "11" THEN Str("30") ELSE Str("12"), FALSE)>>).obj

\* The requests the server answers with data; the others get a 404.
TieneDatos(t) ==
    CASE t.tipo = "municipios" -> TRUE
      [] t.tipo = "anios" -> ServidorAnios(t.m) # {}
      [] t.tipo = "estaciones" -> ServidorEstaciones(t.m) # {}
      [] t.tipo = "estacionesAnio" -> ServidorEstacionesAnio(t.m, t.y) # {}
      [] t.tipo = "contaminantes" -> ServidorContaminantes(t.e, t.y) # {}
      [] t.tipo = "datos" -> t.x \in Ids(ServidorContaminantes(t.e, t.y))
      [] OTHER -> FALSE

\* parseInt of an option value: the number of a numeral, NaN of "".
parseInt(s) ==
    IF \E k \in Estaciones : DigitosDe(k) = s
    THEN Entero(CHOOSE k \in Estaciones : DigitosDe(k) = s)
    ELSE NaN

\* select.value = v: the option with that value becomes the selected one;
\* when there is none, no option is selected and the value reads "".
AsignarValor(sel, v) == [sel EXCEPT !.value = IF v \in sel.opciones \cup {""} THEN v ELSE ""]

\* select.innerHTML = placeholder followed by one appended option per value:
\* the placeholder is the selected option.
ConOpciones(sel, valores) == [sel EXCEPT !.value = "", !.opciones = valores]

fetch(u, t) == [u EXCEPT !.enVuelo = @ (+) SetToBag({t})]

\* A catch block: the page shows the error in the status line.
MostrarError(u) == [u EXCEPT !.huboError = TRUE]

TodosGrises(marcadores) ==
    [k \in DOMAIN marcadores |-> [marcadores[k] EXCEPT !.color = "#9E9E9E", !.resaltado = FALSE]]

\* Lines 101-138.
llenarSelectMunicipios(u, municipios) ==
    [u EXCEPT !.selectMunicipio = ConOpciones(@, Ids(municipios))]

mostrarMunicipiosEnMapa(u, municipios) == [u EXCEPT !.capaMunicipios = municipios]

\* Lines 145-161.
limpiarEstacionesDelMapa(u) ==
    [u EXCEPT !.marcadoresEstaciones = SinMarcadores, !.estacionSeleccionada = Null]

limpiarInfoBox(u) == [u EXCEPT !.infoBoxControl = Null]

\* Lines 955-997.
limpiarPanelInformacion(u) == [u EXCEPT !.panel = "instrucciones"]

resetearFiltrosDependientes_UnNivelDeMas(u, nivel) ==
    LET u1 == IF nivel <= 2 THEN [u EXCEPT !.selectAnio = SoloMarcador] ELSE u
        u2 == IF nivel <= 2 THEN [u1 EXCEPT !.selectEstacion = SoloMarcador] ELSE u1
        u3 == IF nivel <= 3 THEN [u2 EXCEPT !.selectContaminante = SoloMarcador] ELSE u2
    IN  IF nivel <= 3
        THEN [limpiarPanelInformacion(u3) EXCEPT !.marcadoresEstaciones = TodosGrises(@)]
        ELSE u3

\* Lines 167-195.
resetearFiltrosDependientes(u, nivel) ==
    LET u1 == IF nivel <= 1 THEN [u EXCEPT !.selectAnio = SoloMarcador] ELSE u
        u2 == IF nivel <= 2 THEN [u1 EXCEPT !.selectEstacion = SoloMarcador] ELSE u1
        u3 == IF nivel <= 3 THEN [u2 EXCEPT !.selectContaminante = SoloMarcador] ELSE u2
    IN  IF nivel <= 3
        THEN [limpiarPanelInformacion(u3) EXCEPT !.marcadoresEstaciones = TodosGrises(@)]
        ELSE u3

\* Lines 205-208 and 243-247, 568-572, 745-751: up to the await of the fetch.
cargarAniosPorMunicipio(u, idMunicipio) == fetch(u, Tarea("anios", idMunicipio, "", "", ""))

cargarEstacionesPorMunicipio(u, idMunicipio) ==
    fetch(u, Tarea("estaciones", idMunicipio, "", "", ""))

cargarContaminantesPorEstacion(u, idEstacion, anio) ==
    fetch(u, Tarea("contaminantes", "", anio, idEstacion, ""))

cargarDatosHistoricos(u, idEstacion, anio, idExposicion) ==
    fetch(u, Tarea("datos", "", anio, idEstacion, idExposicion))

\* Control of the info box (lines 403-423).
Control == [t |-> "object", n |-> 0, s |-> "L.control"]

actualizarInfoBox(u) == [limpiarInfoBox(u) EXCEPT !.infoBoxControl = Control]

\* Every station of the model has coordinates (line 295).
TieneCoordenadas(est) == est \in Estaciones

\* Lines 276-344.  estaciones is the set of the ids of the array; the
\* argument anio, which only words the popups and the info box, is left out.
mostrarEstacionesEnMapa(u, estaciones, conInteractividad) ==
    LET u1 == limpiarInfoBox(limpiarEstacionesDelMapa(u)) IN
    IF estaciones = {} THEN u1
    ELSE LET marcadores ==
                 [k \in Ids({est \in estaciones : TieneCoordenadas(est)}) |->
                     [color |-> "#9E9E9E",
                      resaltado |-> (u1.estacionSeleccionada = parseInt(k)),
                      interactivo |-> conInteractividad]]
             u2 == actualizarInfoBox([u1 EXCEPT !.marcadoresEstaciones = marcadores])
         IN  IF conInteractividad /\ Cardinality(estaciones) = 1
             THEN [u2 EXCEPT !.temporizadores = Append(@, CHOOSE est \in estaciones : TRUE)]
             ELSE u2

\* Lines 1023-1037.
hayFiltrosActivos(u) ==
    \/ u.selectMunicipio.value # ""
    \/ u.selectAnio.value # ""
    \/ u.selectEstacion.value # ""
    \/ u.selectContaminante.value # ""

actualizarBotonLimpiar(u) == [u EXCEPT !.btnLimpiarFiltros.disabled = ~hayFiltrosActivos(u)]

\* The change listeners up to their first await (lines 616-635, 642-659,
\* 698-719, 726-738).
ListenerMunicipio(u) ==
    LET idMunicipio == u.selectMunicipio.value
        u1 == limpiarInfoBox(limpiarEstacionesDelMapa(resetearFiltrosDependientes(u, 1)))
    IN  IF idMunicipio = "" THEN u1 ELSE cargarAniosPorMunicipio(u1, idMunicipio)

ListenerAnio(u) ==
    LET anio == u.selectAnio.value
        idMunicipio == u.selectMunicipio.value
        u1 == resetearFiltrosDependientes(u, 2)
    IN  IF anio = "" THEN cargarEstacionesPorMunicipio(u1, idMunicipio)
        ELSE fetch(u1, Tarea("estacionesAnio", idMunicipio, anio, "", ""))

ListenerEstacion(u) ==
    LET idEstacion == u.selectEstacion.value
        anio == u.selectAnio.value
        u1 == [resetearFiltrosDependientes(u, 3) EXCEPT !.estacionSeleccionada = parseInt(idEstacion)]
    IN  IF idEstacion = ""
        THEN [u1 EXCEPT !.estacionSeleccionada = Null, !.marcadoresEstaciones = TodosGrises(@)]
        ELSE cargarContaminantesPorEstacion(u1, idEstacion, anio)

ListenerContaminante(u) ==
    LET idExposicion == u.selectContaminante.value IN
    IF idExposicion = "" THEN limpiarPanelInformacion(u)
    ELSE cargarDatosHistoricos(u, u.selectEstacion.value, u.selectAnio.value, idExposicion)

\* A change event on a select runs its two listeners in the order of their
\* registration (lines 616-739, then 1073-1076).
AlCambiarMunicipio(u) == actualizarBotonLimpiar(ListenerMunicipio(u))

AlCambiarAnio(u) == actualizarBotonLimpiar(ListenerAnio(u))

AlCambiarEstacion(u) == actualizarBotonLimpiar(ListenerEstacion(u))

AlCambiarContaminante(u) == actualizarBotonLimpiar(ListenerContaminante(u))

\* Lines 525-541, up to the first await.
seleccionarMunicipioDesdeMarkador(u, idMunicipio) ==
    LET u1 == [u EXCEPT !.selectMunicipio = AsignarValor(@, DigitosDe(idMunicipio))]
        u2 == limpiarInfoBox(limpiarEstacionesDelMapa(resetearFiltrosDependientes(u1, 1)))
    IN  cargarAniosPorMunicipio(u2, DigitosDe(idMunicipio))

\* Lines 547-557: the change event is dispatched synchronously.  The
\* z-index and the popup set by resaltarEstacionEnMapa are not in the model.
sincronizarEstacionConSelector(u, idEstacion) ==
    AlCambiarEstacion([u EXCEPT !.selectEstacion = AsignarValor(@, DigitosDe(idEstacion)),
                                !.estacionSeleccionada = Entero(idEstacion)])

\* Lines 783-796 and the panel.
mostrarInformacionContaminante(u, datos) ==
    LET k == CadenaDe(u.estacionSeleccionada)
        u1 == IF Truthy(u.estacionSeleccionada) /\ k \in DOMAIN u.marcadoresEstaciones
              THEN [u EXCEPT !.marcadoresEstaciones[k] =
                                 [@ EXCEPT !.color = datos.clasificacion.color, !.resaltado = TRUE]]
              ELSE u
    IN  [u1 EXCEPT !.panel = "datos"]

\* Lines 1040-1070.
LimpiarFiltros(u) ==
    IF ~hayFiltrosActivos(u) THEN u
    ELSE LET u1 == [u EXCEPT !.selectMunicipio = AsignarValor(@, ""),
                             !.selectAnio = [AsignarValor(@, "") EXCEPT !.disabled = TRUE],
                             !.selectEstacion = [AsignarValor(@, "") EXCEPT !.disabled = TRUE],
                             !.selectContaminante = [AsignarValor(@, "") EXCEPT !.disabled = TRUE]]
         IN  actualizarBotonLimpiar(
                 limpiarPanelInformacion(limpiarInfoBox(limpiarEstacionesDelMapa(u1))))

\* Line 1040: the listener is registered for the button's click event, which
\* a disabled button does not dispatch.
ClicEnBoton(u) ==
    IF u.btnLimpiarFiltros.disabled THEN u ELSE LimpiarFiltros(u)

\* History of the user's events, kept beside the page and read by no
\* handler: anioRecienElegido says that the user's latest event was the
\* choice of a year, and intactos[i] that the i-th pending timer was set by
\* the answer to that choice and that the user has done nothing since.
Usuario(u, eligeAnio) ==
    [u EXCEPT !.anioRecienElegido = eligeAnio,
              !.intactos = [i \in DOMAIN @ |-> FALSE]]

AnotarTemporizador(antes, u, t) ==
    IF Len(u.temporizadores) > Len(antes.temporizadores)
    THEN [u EXCEPT !.intactos = Append(@, /\ antes.anioRecienElegido
                                          /\ t.m = antes.selectMunicipio.value
                                          /\ t.y = antes.selectAnio.value)]
    ELSE u

\* The continuation of the function that awaits request t, when the
\* response is ok with the server's data (ok) or not (404, 500, no network).
Continuar(u, t, ok) ==
    CASE t.tipo = "municipios" ->
            IF ok THEN mostrarMunicipiosEnMapa(llenarSelectMunicipios(u, Municipios), Municipios)
            ELSE MostrarError(u)
      [] t.tipo = "anios" ->
            \* lines 209-232, then lines 540 and 635: the stations are requested
            cargarEstacionesPorMunicipio(
                IF ok
                THEN [u EXCEPT !.selectAnio =
                                  [ConOpciones(@, Ids(ServidorAnios(t.m))) EXCEPT !.disabled = FALSE]]
                ELSE MostrarError(u),
                t.m)
      [] t.tipo = "estaciones" ->
            IF ok THEN mostrarEstacionesEnMapa(u, ServidorEstaciones(t.m), FALSE)
            ELSE MostrarError(u)
      [] t.tipo = "estacionesAnio" ->
            \* lines 661-691
            IF ok
            THEN LET estaciones == ServidorEstacionesAnio(t.m, t.y) IN
                 [AnotarTemporizador(u, mostrarEstacionesEnMapa(u, estaciones, TRUE), t)
                    EXCEPT !.selectEstacion = [ConOpciones(@, Ids(estaciones)) EXCEPT !.disabled = FALSE]]
            ELSE MostrarError(u)
      [] t.tipo = "contaminantes" ->
            \* lines 575-609
            IF ok
            THEN [u EXCEPT !.selectContaminante =
                              [ConOpciones(@, Ids(ServidorContaminantes(t.e, t.y)))
                                  EXCEPT !.disabled = FALSE]]
            ELSE [MostrarError(u) EXCEPT !.selectContaminante.disabled = TRUE]
      [] t.tipo = "datos" ->
            \* lines 753-776
            IF ok THEN mostrarInformacionContaminante(u, ServidorDatos(t.e, t.y, t.x))
            ELSE [MostrarError(u) EXCEPT !.panel = "error"]

\* The page keeps within the bounds of the model.
DentroDeCotas(u) ==
    BagCardinality(u.enVuelo) <= MaxEnVuelo /\ Len(u.temporizadores) <= MaxTemporizadores

\* The user picks another option of an enabled select.
PuedeElegir(sel, v) == ~sel.disabled /\ v \in sel.opciones \cup {""} /\ v # sel.value

Pasa(u) ==
    /\ DentroDeCotas(u)
    /\ visor' = u
    /\ UNCHANGED <<varsLlamada, retenido, varsModulo, varsHistorico>>

CambiarMunicipio ==
    \E v \in Ids(Municipios) \cup {""} :
        /\ PuedeElegir(visor.selectMunicipio, v)
        /\ Pasa(AlCambiarMunicipio(Usuario([visor EXCEPT !.selectMunicipio.value = v], FALSE)))

CambiarAnio ==
    \E v \in Ids(Anios) \cup {""} :
        /\ PuedeElegir(visor.selectAnio, v)
        /\ Pasa(AlCambiarAnio(Usuario([visor EXCEPT !.selectAnio.value = v], v # "")))

CambiarEstacion ==
    \E v \in Ids(Estaciones) \cup {""} :
        /\ PuedeElegir(visor.selectEstacion, v)
        /\ Pasa(AlCambiarEstacion(Usuario([visor EXCEPT !.selectEstacion.value = v], FALSE)))

CambiarContaminante ==
    \E v \in Ids(Exposiciones) \cup {""} :
        /\ PuedeElegir(visor.selectContaminante, v)
        /\ Pasa(AlCambiarContaminante(Usuario([visor EXCEPT !.selectContaminante.value = v], FALSE)))

\* Line 126: a click on the marker of a municipality.
ClicMarcadorMunicipio ==
    \E m \in visor.capaMunicipios : Pasa(seleccionarMunicipioDesdeMarkador(Usuario(visor, FALSE), m))

\* Line 311: a click on the marker of a station drawn for a year.
ClicMarcadorEstacion ==
    \E est \in Estaciones :
        /\ DigitosDe(est) \in DOMAIN visor.marcadoresEstaciones
        /\ visor.marcadoresEstaciones[DigitosDe(est)].interactivo
        /\ Pasa(sincronizarEstacionConSelector(Usuario(visor, FALSE), est))

\* Line 1040: a click on the clear button, which a disabled button ignores.
ClicLimpiarFiltros ==
    Pasa(ClicEnBoton(Usuario(visor, FALSE)))

\* Line 340: the callback of the oldest setTimeout runs.
DispararTemporizador ==
    /\ visor.temporizadores # <<>>
    /\ Pasa(sincronizarEstacionConSelector([visor EXCEPT !.temporizadores = Tail(@),
                                                          !.intactos = Tail(@)],
                                           Head(visor.temporizadores)))

\* The response of one of the requests in flight arrives.
LlegaRespuesta ==
    \E t \in BagToSet(visor.enVuelo) : \E ok \in BOOLEAN :
        /\ ok => TieneDatos(t)
        /\ Pasa(Continuar([visor EXCEPT !.enVuelo = @ (-) SetToBag({t})], t, ok))

InitVisorSolo ==
    /\ InitLlamadaEnReposo
    /\ InitModulo
    /\ InitResto

NextVisor ==
    \/ CambiarMunicipio
    \/ CambiarAnio
    \/ CambiarEstacion
    \/ CambiarContaminante
    \/ ClicMarcadorMunicipio
    \/ ClicMarcadorEstacion
    \/ ClicLimpiarFiltros
    \/ DispararTemporizador
    \/ LlegaRespuesta

SpecVisor == InitVisorSolo /\ [][NextVisor]_vars


(***************************************************************************)
(* Claims about the viewer page, under SpecVisor.                          *)
(***************************************************************************)

\* C19: in every state of the page, with requests in flight or not, the
\* year select is enabled only if a municipality is selected, the station
\* select only if a year is selected, and the pollutant select only if a
\* station is selected.
C19_CadenaDeFiltros ==
    /\ ~visor.selectAnio.disabled => visor.selectMunicipio.value # ""
    /\ ~visor.selectEstacion.disabled => visor.selectAnio.value # ""
    /\ ~visor.selectContaminante.disabled => visor.selectEstacion.value # ""


\* The stations the server returns for the selects as they stand.
EstacionesDeLaSeleccion ==
    IF visor.selectAnio.value = ""
    THEN ServidorEstaciones(visor.selectMunicipio.value)
    ELSE ServidorEstacionesAnio(visor.selectMunicipio.value, visor.selectAnio.value)

\* C20: once no request is in flight (and none has failed), the markers in
\* marcadoresEstaciones are those of the stations returned for the selected
\* municipality, and for the selected year when one is selected, whatever
\* the order in which the responses arrived.
C20_MarcadoresDeLaUltimaSeleccion ==
    (/\ BagCardinality(visor.enVuelo) = 0
     /\ ~visor.huboError
     /\ visor.selectMunicipio.value # "")
    => DOMAIN visor.marcadoresEstaciones = Ids(EstacionesDeLaSeleccion)


\* A user's change of the municipality, of the year or of the station,
\* through a select or through a marker.
CambioDeFiltroSuperior ==
    \/ CambiarMunicipio
    \/ CambiarAnio
    \/ CambiarEstacion
    \/ ClicMarcadorMunicipio
    \/ ClicMarcadorEstacion

TodosLosMarcadoresGrises(u) ==
    \A k \in DOMAIN u.marcadoresEstaciones : u.marcadoresEstaciones[k].color = "#9E9E9E"

\* A marker is coloured only for the selection as it stands.
ColorSoloDeLaSeleccion ==
    \A k \in DOMAIN visor.marcadoresEstaciones :
        visor.marcadoresEstaciones[k].color # "#9E9E9E"
          => /\ k = visor.selectEstacion.value
             /\ visor.estacionSeleccionada = parseInt(k)
             /\ visor.selectContaminante.value # ""
             /\ visor.marcadoresEstaciones[k].color
                  = ServidorDatos(visor.selectEstacion.value, visor.selectAnio.value,
                                  visor.selectContaminante.value).clasificacion.color

\* C21: a station marker is not grey only if it is the marker of the
\* selected station and its colour is the classification colour of the data
\* of the selected station, year and pollutant; every change of the
\* municipality, the year or the station leaves all markers grey; so a
\* response with historical data that arrives after such a change colours
\* no marker.
C21_ColorSoloDeLaSeleccionActual ==
    /\ []ColorSoloDeLaSeleccion
    /\ [][CambioDeFiltroSuperior => TodosLosMarcadoresGrises(visor')]_vars


\* The levels resetearFiltrosDependientes is called with.
Niveles == {1, 2, 3}

\* The selects by their place in the chain: 0 the municipality, then the
\* year, the station and the pollutant.
SelectDeNivel(u, n) ==
    CASE n = 0 -> u.selectMunicipio
      [] n = 1 -> u.selectAnio
      [] n = 2 -> u.selectEstacion
      [] OTHER -> u.selectContaminante

\* C22: applied to any state of the page, resetearFiltrosDependientes(nivel)
\* leaves the selects of the levels nivel..3 with the placeholder as their
\* only option, an empty value and disabled, leaves the municipality select
\* and the selects of the levels below nivel as they were, shows the
\* instructions in the panel and leaves every station marker grey and not
\* highlighted, on the map as before; it changes nothing else of the page.
C22_ResetearSoloDependientes ==
    \A nivel \in Niveles :
        LET r == resetearFiltrosDependientes(visor, nivel) IN
        /\ \A n \in 0..3 :
              IF n >= nivel
              THEN /\ SelectDeNivel(r, n).value = ""
                   /\ SelectDeNivel(r, n).disabled
                   /\ SelectDeNivel(r, n).opciones = {}
              ELSE SelectDeNivel(r, n) = SelectDeNivel(visor, n)
        /\ r.panel = "instrucciones"
        /\ DOMAIN r.marcadoresEstaciones = DOMAIN visor.marcadoresEstaciones
        /\ \A k \in DOMAIN r.marcadoresEstaciones :
              /\ r.marcadoresEstaciones[k].color = "#9E9E9E"
              /\ ~r.marcadoresEstaciones[k].resaltado
              /\ r.marcadoresEstaciones[k].interactivo = visor.marcadoresEstaciones[k].interactivo
        /\ r.estacionSeleccionada = visor.estacionSeleccionada
        /\ r.infoBoxControl = visor.infoBoxControl
        /\ r.btnLimpiarFiltros = visor.btnLimpiarFiltros
        /\ r.enVuelo = visor.enVuelo
        /\ r.temporizadores = visor.temporizadores
        /\ r.capaMunicipios = visor.capaMunicipios

\* A page with the whole chain chosen, the data shown and a marker coloured:
\* the reset of level 2 has the station, the pollutant, the panel and the
\* marker to reset, and the year to keep.
C22_Witness ==
    /\ visor.selectAnio.value = "2020" /\ ~visor.selectAnio.disabled
    /\ visor.selectEstacion.value = "21" /\ ~visor.selectEstacion.disabled
    /\ visor.selectContaminante.value = "101" /\ ~visor.selectContaminante.disabled
    /\ visor.panel = "datos"
    /\ visor.marcadoresEstaciones["21"].color = "#00E400"
    /\ resetearFiltrosDependientes(visor, 2).selectAnio = visor.selectAnio
    /\ resetearFiltrosDependientes(visor, 2).selectEstacion = SoloMarcador
    /\ resetearFiltrosDependientes(visor, 2).marcadoresEstaciones["21"].color = "#9E9E9E"


\* The user's events on the filters: a change of one of the four selects,
\* a click on a municipality or station marker, a click on the clear button.
EventoDeUsuario ==
    \/ CambiarMunicipio \/ CambiarAnio \/ CambiarEstacion \/ CambiarContaminante
    \/ ClicMarcadorMunicipio \/ ClicMarcadorEstacion
    \/ ClicLimpiarFiltros

\* C23: after every handled user event the clear button is enabled exactly
\* when at least one of the four selects has a non-empty value.
C23_BotonLimpiarSegunFiltros ==
    [][EventoDeUsuario =>
          (~visor'.btnLimpiarFiltros.disabled <=> hayFiltrosActivos(visor'))]_vars


\* The state of the filters the page starts in, as far as the clear button's
\* handler assigns it.
FiltrosEnEstadoInicial(u) ==
    /\ u.selectMunicipio.value = ""
    /\ u.selectAnio.value = "" /\ u.selectAnio.disabled
    /\ u.selectEstacion.value = "" /\ u.selectEstacion.disabled
    /\ u.selectContaminante.value = "" /\ u.selectContaminante.disabled
    /\ u.marcadoresEstaciones = SinMarcadores
    /\ u.estacionSeleccionada = Null
    /\ u.infoBoxControl = Null
    /\ u.panel = "instrucciones"
    /\ u.btnLimpiarFiltros.disabled

\* C24: in every state of the page, a click on the clear button leaves the
\* filters in their initial state when at least one filter is active, and
\* changes nothing when no filter is active.
C24_LimpiarDejaEstadoInicial ==
    IF hayFiltrosActivos(visor)
    THEN FiltrosEnEstadoInicial(ClicEnBoton(visor))
    ELSE ClicEnBoton(visor) = visor


(***************************************************************************)
(* The page under the scheduling of the browser: the callback of a         *)
(* pending setTimeout (line 338) is run by the event loop, and a fetch     *)
(* that was started settles, with a response or with an error.             *)
(***************************************************************************)
SpecVisorJusto ==
    /\ SpecVisor
    /\ WF_vars(DispararTemporizador)
    /\ WF_vars(LlegaRespuesta)

\* Station est is the selected one and its pollutants are being loaded.
AutoSeleccionada(u, est) ==
    /\ u.selectEstacion.value = DigitosDe(est)
    /\ u.estacionSeleccionada = Entero(est)
    /\ \E t \in BagToSet(u.enVuelo) : t.tipo = "contaminantes" /\ t.e = DigitosDe(est)

\* A callback for station est is pending that the answer to the user's
\* latest event, the choice of a year, has set (Intacto), or one that the
\* user's later events have overtaken (Superado).
TemporizadorIntacto(est) ==
    \E i \in DOMAIN visor.temporizadores :
        visor.temporizadores[i] = est /\ visor.intactos[i]

TemporizadorSuperado(est) ==
    \E i \in DOMAIN visor.temporizadores :
        visor.temporizadores[i] = est /\ ~visor.intactos[i]

\* C25: when the user's latest event is the choice of a year and the server
\* has answered it with exactly one station, then, unless the user acts
\* again, the deferred callback runs, and the step in which it runs leaves
\* that station's id in the station select and in estacionSeleccionada and
\* the request for the station's pollutants in flight.
C25_UnicaEstacionAutoSeleccionada ==
    /\ [][(DispararTemporizador /\ Head(visor.intactos))
             => AutoSeleccionada(visor', Head(visor.temporizadores))]_vars
    /\ \A est \in Estaciones :
          TemporizadorIntacto(est) ~> (AutoSeleccionada(visor, est) \/ TemporizadorSuperado(est))


\* C26: whenever no request is in flight (a state is always between two
\* handlers), estacionSeleccionada is null if the value of the station
\* select is empty and is the integer id held by the select otherwise.
C26_EstacionSeleccionadaSegunSelect ==
    BagCardinality(visor.enVuelo) = 0
      => visor.estacionSeleccionada
           = IF visor.selectEstacion.value = "" THEN Null
             ELSE parseInt(visor.selectEstacion.value)

====
